---- MODULE Spec2Model ----
(***************************************************************************)
(* Model of the multi-provider MCP client                                  *)
(* (tools/mcp/simple-mcp-client/simple-mcp-client.cpp): provider           *)
(* connection at startup, the tool registry, the dispatcher and the        *)
(* interactive command loop; and of the single-tool example                *)
(* (examples/simple-function-call/simple-function-call.cpp): generation    *)
(* loop, response parsing and the shell_command executor.  A behaviour is  *)
(* a run of one of the two programs.                                       *)
(***************************************************************************)
EXTENDS Integers, Sequences, FiniteSets, TLC

\* ------------------------------------------------------------------ bounds
\* Largest number of configured servers (the built-in default included).
MaxServers == 2
\* Largest number of lines the operator input stream supplies.
MaxLines == 2
\* Largest prompt length in tokens.
MaxPrompt == 2
\* Largest value of -n (n_predict).
MaxPredict == 2
\* Largest number of tool calls the parser returns for one response.
MaxCalls == 2

\* ------------------------------------------------------------ value sets
\* Server names the command line can give; parse_config always puts
\* "default-agent" first.
ServerNames == {"default-agent", "agent-b"}
\* Tool names a server can offer.
ToolNames == {"search"}
\* Tool names the operator types: one a server may offer, one nobody offers.
TypedNames == {"search", "summarize"}
\* What one connection attempt does: initialize() returns false,
\* initialize() throws, get_tools() throws, or everything succeeds.
Outcomes == {"init_false", "init_throws", "tools_throws", "ok"}
\* What call_tool does on the transport.
CallOutcomes == {"ok", "throws"}

\* Argument blobs: json::parse accepts "{}" and rejects "{bad".
ArgBlobs == {"{}", "{bad"}
\* The operator's lines, as their whitespace-separated tokens; <<>> is the
\* empty line.
Lines ==
    {<<>>, <<"exit">>, <<"quit">>, <<"tools">>, <<"servers">>, <<"help">>,
     <<"bogus">>, <<"tool">>}
    \cup {<<"tool", n>> : n \in TypedNames}
    \cup {<<"tool", n, a>> : n \in TypedNames, a \in ArgBlobs}

\* What the stream holds next: a line ended by a newline, a last line ended
\* by end-of-file, or end-of-file with no character left.
StreamInputs ==
    {[kind |-> "line", text |-> l, nl |-> TRUE] : l \in Lines}
    \cup {[kind |-> "line", text |-> l, nl |-> FALSE] : l \in Lines \ {<<>>}}
    \cup {[kind |-> "eof", text |-> <<>>, nl |-> FALSE]}

\* Tokens the sampler returns; "eog" is the end-of-generation token.
Tokens == {"eog", "tok_a", "tok_b"}
\* Argument payloads of a tool call: an object with a string `command`, an
\* object without it, and text that is not JSON.
ArgPayloads == {"{cmd}", "{}", "{bad"}
\* Tool calls the parser can return.
ToolCallSet ==
    {[name |-> "shell_command", arguments |-> a] : a \in ArgPayloads}
    \cup {[name |-> "other_tool", arguments |-> "{cmd}"]}
\* The operator's answers to the confirmation prompt, as token sequences.
Answers == {<<"y">>, <<"Y">>, <<"n">>, <<>>}
\* What stdin holds when the prompt is answered.
AnswerInputs ==
    {[kind |-> "line", text |-> a, nl |-> TRUE] : a \in Answers}
    \cup {[kind |-> "eof", text |-> <<>>, nl |-> FALSE]}

VARIABLES
    program,             \* which program runs: "mcp" or "gen"
    config,              \* Config::servers, as built by parse_config
    next_cfg,            \* position of main's loop over config.servers
    connected_servers,   \* the global vector of MCPServerConnection
    tool_to_server_map,  \* the global map tool name -> server name
    pc,                  \* "Startup", "AwaitingCommand", "Exited", "Aborted"
    exit_code,           \* main's return value, -1 while running
    frames,              \* one `line` per active run_interactive_mode call
    cin,                 \* std::cin: "good", "eof" (eofbit), "fail"
    attempts,            \* history: the connection attempts made, in order
    last,                \* history: what the last loop iteration did
    n_lines,             \* history: lines the stream has supplied
    n_exec,              \* history: commands executed (non-empty line)
    n_dispatch,          \* history: calls of execute_tool
    call_failed,         \* history: some call_tool has thrown
    \* simple-function-call
    confirm_commands,    \* --confirm
    n_prompt,            \* number of prompt tokens
    n_predict,           \* -n
    gpc,                 \* "Idle", "Generating", "Parsing", "Executing",
                         \* "Exited"
    gexit,               \* main's return value, -1 while running
    n_pos,               \* tokens evaluated so far
    batch,               \* the llama_batch: size and what it points to
    new_token_id,        \* the last sampled token, "none" before
    n_decode,            \* generated tokens
    response_text,       \* the pieces appended so far
    tool_calls,          \* parsed_response.tool_calls
    call_idx,            \* position of the loop over tool_calls
    gcin,                \* std::cin of this program
    processed,           \* history: what was done for each tool call
    samples,             \* history: the tokens sampled, in order
    n_llama_decode,      \* history: calls of llama_decode
    gfail                \* history: the fatal generation error, if any

mcp_vars == <<config, next_cfg, connected_servers, tool_to_server_map, pc,
              exit_code, frames, cin, attempts, last, n_lines, n_exec,
              n_dispatch, call_failed>>

gen_vars == <<confirm_commands, n_prompt, n_predict, gpc, gexit, n_pos,
              batch, new_token_id, n_decode, response_text, tool_calls,
              call_idx, gcin, processed, samples, n_llama_decode, gfail>>

vars == <<program, mcp_vars, gen_vars>>

\* --------------------------------------------------------------- helpers
\* The history counters saturate one above the number of lines supplied.
Bump(n) == IF n <= MaxLines THEN n + 1 ELSE n

RECURSIVE SeqsUpTo(_, _)
SeqsUpTo(S, n) ==
    IF n = 0 THEN {<<>>}
    ELSE LET shorter == SeqsUpTo(S, n - 1)
         IN  shorter \cup {Append(s, x) : s \in shorter, x \in S}

NoIteration ==
    [line |-> <<>>, report |-> "none", contacted |-> 0, dispatched |-> FALSE,
     threw |-> FALSE, errs |-> 0]

NoFailure == [kind |-> "none", errs |-> 0]

\* ------------------------------------------------------------ parse_config
\* The default server first, then one entry per --add-server.
parse_config ==
    {<<[name |-> "default-agent"]>> \o s :
        s \in SeqsUpTo({[name |-> n] : n \in ServerNames}, MaxServers - 1)}

\* ------------------------------------------------------- connect_to_server
\* tool_to_server_map after the loop over server.tools.
RegisterTools(map, name, tools) ==
    [t \in (DOMAIN map) \cup tools |-> IF t \in tools THEN name ELSE map[t]]

\* Lines connect_to_server writes to stderr: one where initialize returns
\* false, one in the catch block.
ConnectErrLines(outcome) == IF outcome = "ok" THEN 0 ELSE 1

\* connect_to_server: the return value, the filled-in connection and the
\* registry it leaves, and the number of lines written to stderr.  The transport handle `client` is identified by the
\* configuration entry it was opened to.
connect_to_server(i, outcome, tools) ==
    IF outcome = "ok"
    THEN [ret |-> TRUE,
          server |-> [name |-> config[i].name, client |-> i, tools |-> tools],
          map |-> RegisterTools(tool_to_server_map, config[i].name, tools),
          errs |-> 0]
    ELSE [ret |-> FALSE,
          server |-> [name |-> config[i].name, client |-> i, tools |-> {}],
          map |-> tool_to_server_map,
          errs |-> ConnectErrLines(outcome)]

\* Fault variant of PushIfConnected: the return value is ignored.
PushIfConnected_Always(servers, r) == Append(servers, r.server)

\* main: what connected_servers is after one attempt.
PushIfConnected(servers, r) ==
    IF r.ret THEN Append(servers, r.server) ELSE servers

\* Fault variant of NextServer: a failed server is tried again.
NextServer_Retry(i, r) == IF r.ret THEN i + 1 ELSE i

\* main: the loop goes on to the next configured server whatever happened.
NextServer(i, r) == i + 1

\* Fault variant of NoServersConnected: the check is missing.
NoServersConnected_Never(servers) == FALSE

\* main: the startup check that ends the process.
NoServersConnected(servers) == Len(servers) = 0

\* ------------------------------------------------------------------- Init
McpInit ==
    /\ config \in parse_config
    /\ next_cfg = 1
    /\ connected_servers = <<>>
    /\ tool_to_server_map = <<>>
    /\ pc = "Startup"
    /\ exit_code = -1
    /\ frames = <<>>
    /\ cin = "good"
    /\ attempts = <<>>
    /\ last = NoIteration
    /\ n_lines = 0
    /\ n_exec = 0
    /\ n_dispatch = 0
    /\ call_failed = FALSE

\* The client is not the program that runs.
McpIdle ==
    /\ config = <<>>
    /\ next_cfg = 1
    /\ connected_servers = <<>>
    /\ tool_to_server_map = <<>>
    /\ pc = "Startup"
    /\ exit_code = -1
    /\ frames = <<>>
    /\ cin = "good"
    /\ attempts = <<>>
    /\ last = NoIteration
    /\ n_lines = 0
    /\ n_exec = 0
    /\ n_dispatch = 0
    /\ call_failed = FALSE

\* simple-function-call at the head of the generation loop: the arguments
\* are parsed, the prompt is tokenized and `batch` holds the whole prompt.
GenInit ==
    /\ confirm_commands \in BOOLEAN
    /\ n_prompt \in 1..MaxPrompt
    /\ n_predict \in -1..MaxPredict
    /\ gpc = "Generating"
    /\ gexit = -1
    /\ n_pos = 0
    /\ batch = [n_tokens |-> n_prompt, token |-> "prompt"]
    /\ new_token_id = "none"
    /\ n_decode = 0
    /\ response_text = <<>>
    /\ tool_calls = <<>>
    /\ call_idx = 1
    /\ gcin = "good"
    /\ processed = <<>>
    /\ samples = <<>>
    /\ n_llama_decode = 0
    /\ gfail = NoFailure

\* The example is not the program that runs.
GenIdle ==
    /\ confirm_commands = FALSE
    /\ n_prompt = 1
    /\ n_predict = 0
    /\ gpc = "Idle"
    /\ gexit = -1
    /\ n_pos = 0
    /\ batch = [n_tokens |-> 1, token |-> "prompt"]
    /\ new_token_id = "none"
    /\ n_decode = 0
    /\ response_text = <<>>
    /\ tool_calls = <<>>
    /\ call_idx = 1
    /\ gcin = "good"
    /\ processed = <<>>
    /\ samples = <<>>
    /\ n_llama_decode = 0
    /\ gfail = NoFailure

Init ==
    \/ program = "mcp" /\ McpInit /\ GenIdle
    \/ program = "gen" /\ McpIdle /\ GenInit

\* One iteration of main's loop over config.servers.
ConnectNext ==
    /\ program = "mcp"
    /\ pc = "Startup"
    /\ next_cfg <= Len(config)
    /\ \E outcome \in Outcomes, tools \in SUBSET ToolNames :
         LET r == connect_to_server(next_cfg, outcome, tools)
         IN  /\ tool_to_server_map' = r.map
             /\ connected_servers' = PushIfConnected(connected_servers, r)
             /\ next_cfg' = NextServer(next_cfg, r)
             /\ attempts' = Append(attempts,
                                   [cfg |-> next_cfg, ok |-> r.ret,
                                    errs |-> r.errs])
    /\ UNCHANGED <<program, config, pc, exit_code, frames, cin, last,
                   n_lines, n_exec, n_dispatch, call_failed>>
    /\ UNCHANGED gen_vars

\* main after the loop: fatal exit, or the first run_interactive_mode call.
StartupDone ==
    /\ program = "mcp"
    /\ pc = "Startup"
    /\ next_cfg > Len(config)
    /\ IF NoServersConnected(connected_servers)
       THEN /\ pc' = "Exited"
            /\ exit_code' = 1
            /\ frames' = frames
       ELSE /\ pc' = "AwaitingCommand"
            /\ exit_code' = exit_code
            /\ frames' = <<(<<>>)>>
    /\ UNCHANGED <<program, config, next_cfg, connected_servers,
                   tool_to_server_map, cin, attempts, last, n_lines, n_exec,
                   n_dispatch, call_failed>>
    /\ UNCHANGED gen_vars

\* ----------------------------------------------------------- display_tools
\* What the `tools` command prints: nothing but a notice when the registry
\* is empty, else every tool of every connected server under that server.
\* A printed entry is the pair <<position in connected_servers, tool>>.
display_tools ==
    IF DOMAIN tool_to_server_map = {} THEN {}
    ELSE {e \in (1..Len(connected_servers)) \X ToolNames :
             e[2] \in connected_servers[e[1]].tools}

\* ------------------------------------------------------ find_server_for_tool
\* Fault variant of find_server_for_tool: an unknown tool falls back to the
\* first connected server.
find_server_for_tool_Fallback(tool_name) ==
    IF tool_name \notin DOMAIN tool_to_server_map
    THEN (IF Len(connected_servers) > 0 THEN 1 ELSE 0)
    ELSE LET hits == {i \in 1..Len(connected_servers) :
                        connected_servers[i].name
                            = tool_to_server_map[tool_name]}
         IN  IF hits = {} THEN 0
             ELSE CHOOSE i \in hits : \A j \in hits : i <= j

\* Index into connected_servers of the returned connection, 0 for nullptr:
\* the map gives a server NAME, the scan returns the first server so named.
find_server_for_tool(tool_name) ==
    IF tool_name \notin DOMAIN tool_to_server_map THEN 0
    ELSE LET hits == {i \in 1..Len(connected_servers) :
                        connected_servers[i].name
                            = tool_to_server_map[tool_name]}
         IN  IF hits = {} THEN 0
             ELSE CHOOSE i \in hits : \A j \in hits : i <= j

\* ------------------------------------------------------------ execute_tool
\* Fault variant of call_tool_guarded: no try block, the exception leaves
\* execute_tool.
call_tool_guarded_Uncaught(call) ==
    IF call = "throws" THEN "Uncaught" ELSE "Result"

\* Fault variant of call_tool_guarded: an empty catch block.
call_tool_guarded_Silent(call) == "Result"

\* The try block around call_tool: the result is printed, an exception is
\* caught and reported.
call_tool_guarded(call) ==
    IF call = "throws" THEN "ExecutionError" ELSE "Result"

\* Fault variant of MapAfterFind: the lookup is tool_to_server_map[tool_name],
\* which inserts an empty server name for an unknown tool.
MapAfterFind_Insert(map, tool_name) ==
    [t \in (DOMAIN map) \cup {tool_name} |->
        IF t \in DOMAIN map THEN map[t] ELSE ""]

\* The registry after tool_to_server_map.find(tool_name): find inserts
\* nothing.
MapAfterFind(map, tool_name) == map

execute_tool(tool_name, call) ==
    LET server == find_server_for_tool(tool_name)
        map == MapAfterFind(tool_to_server_map, tool_name)
    IN  IF server = 0
        THEN [report |-> "NotFound", contacted |-> 0, map |-> map]
        ELSE [report |-> call_tool_guarded(call), contacted |-> server,
              map |-> map]

\* ---------------------------------------------------- run_interactive_mode
\* std::getline(std::cin, line).  A stream that is not good() fails the
\* sentry: failbit is set and `line` keeps its old value.  Otherwise `line`
\* is erased first; end-of-file with nothing extracted sets eofbit and
\* failbit, end-of-file after some characters sets eofbit only.
getline(stream, line, inp) ==
    IF stream # "good"
    THEN [cin |-> "fail", line |-> line, got |-> 0]
    ELSE IF inp.kind = "eof"
    THEN [cin |-> "fail", line |-> <<>>, got |-> 0]
    ELSE IF inp.nl
    THEN [cin |-> "good", line |-> inp.text, got |-> 1]
    ELSE [cin |-> "eof", line |-> inp.text, got |-> 1]

\* ss >> command; ss >> tool_name; the rest of the line, trimmed.
CommandOf(line) == IF Len(line) >= 1 THEN line[1] ELSE ""
ToolNameOf(line) == IF Len(line) >= 2 THEN line[2] ELSE ""
ArgsStrOf(line) == IF Len(line) >= 3 THEN line[3] ELSE ""

\* Fault variant of json_parse: a blob that does not parse is taken as an
\* empty object.
json_parse_Lenient(args_str) ==
    IF args_str = "{cmd}" THEN [ok |-> TRUE, value |-> {"command"}]
    ELSE [ok |-> TRUE, value |-> {}]

\* json::parse(args_str) returns a value or throws.  The value of an object
\* is given by its string-valued keys: "{}" has none, "{cmd}" stands for
\* {"command": "<a shell command>"}.
json_parse(args_str) ==
    IF args_str = "{}" THEN [ok |-> TRUE, value |-> {}]
    ELSE IF args_str = "{cmd}" THEN [ok |-> TRUE, value |-> {"command"}]
    ELSE [ok |-> FALSE, value |-> {}]

\* The `tool` branch of the command chain.
ToolCommand(line, call) ==
    IF ToolNameOf(line) = ""
    THEN [report |-> "NameRequired", contacted |-> 0, dispatched |-> FALSE,
          ctl |-> "continue", map |-> tool_to_server_map]
    ELSE IF ArgsStrOf(line) # "" /\ ~json_parse(ArgsStrOf(line)).ok
    THEN [report |-> "InvalidJSON", contacted |-> 0, dispatched |-> FALSE,
          ctl |-> "continue", map |-> tool_to_server_map]
    ELSE LET e == execute_tool(ToolNameOf(line), call)
         IN  [report |-> e.report, contacted |-> e.contacted,
              dispatched |-> TRUE, ctl |-> "continue", map |-> e.map]

\* What `help` does: run_interactive_mode({true}), a nested command loop.
HelpCommand ==
    [report |-> "Help", contacted |-> 0, dispatched |-> FALSE,
     ctl |-> "recurse", map |-> tool_to_server_map]

\* Fault variant of UnknownCommand: an unknown command leaves the loop.
UnknownCommand_Break ==
    [report |-> "Unknown", contacted |-> 0, dispatched |-> FALSE,
     ctl |-> "break", map |-> tool_to_server_map]

\* The final else of the command chain: one line on stderr, nothing else.
UnknownCommand ==
    [report |-> "Unknown", contacted |-> 0, dispatched |-> FALSE,
     ctl |-> "continue", map |-> tool_to_server_map]

\* The body of the while loop after the empty-line test.
RunCommand(line, call) ==
    LET command == CommandOf(line)
    IN  IF command \in {"exit", "quit"}
        THEN [report |-> "Exit", contacted |-> 0, dispatched |-> FALSE,
              ctl |-> "break", map |-> tool_to_server_map]
        ELSE IF command = "tools"
        THEN [report |-> "Tools", contacted |-> 0, dispatched |-> FALSE,
              ctl |-> "continue", map |-> tool_to_server_map]
        ELSE IF command = "servers"
        THEN [report |-> "Servers", contacted |-> 0, dispatched |-> FALSE,
              ctl |-> "continue", map |-> tool_to_server_map]
        ELSE IF command = "tool"
        THEN ToolCommand(line, call)
        ELSE IF command = "help"
        THEN HelpCommand
        ELSE UnknownCommand

\* One iteration of the while loop, empty-line test included.
LoopBody(line, call) ==
    IF line = <<>>
    THEN [report |-> "Empty", contacted |-> 0, dispatched |-> FALSE,
          ctl |-> "continue", map |-> tool_to_server_map]
    ELSE RunCommand(line, call)

\* The call stack of run_interactive_mode after one iteration: `break`
\* returns to the caller, `help` enters a new call with an empty `line`.
FramesAfter(fs, line, ctl) ==
    LET cur == [fs EXCEPT ![Len(fs)] = line]
    IN  IF ctl = "break" THEN SubSeq(cur, 1, Len(cur) - 1)
        ELSE IF ctl = "recurse" THEN Append(cur, <<>>)
        ELSE cur

\* Lines one loop iteration writes to stderr, by the branch it took.
StderrLines(report) ==
    IF report \in {"NameRequired", "InvalidJSON", "NotFound",
                   "ExecutionError", "Unknown"}
    THEN 1 ELSE 0

\* The transport answers only when the iteration reaches call_tool.
TransportReplies(line) ==
    IF LoopBody(line, "ok").contacted # 0 THEN CallOutcomes ELSE {"ok"}

\* One iteration of the command loop of the innermost run_interactive_mode
\* call: prompt, getline, command.  Returning from the outermost call lets
\* main return 0; an exception nobody catches ends the process.
Iterate ==
    /\ program = "mcp"
    /\ pc = "AwaitingCommand"
    /\ \E inp \in StreamInputs :
         /\ cin # "good" => inp.kind = "eof"
         /\ inp.kind = "line" => n_lines < MaxLines
         /\ LET g == getline(cin, frames[Len(frames)], inp)
            IN  \E call \in TransportReplies(g.line) :
                  LET b == LoopBody(g.line, call)
                      fs == FramesAfter(frames, g.line, b.ctl)
                  IN  /\ cin' = g.cin
                      /\ n_lines' = n_lines + g.got
                      /\ n_exec' = IF g.line = <<>> THEN n_exec
                                   ELSE Bump(n_exec)
                      /\ n_dispatch' = IF b.dispatched THEN Bump(n_dispatch)
                                       ELSE n_dispatch
                      /\ call_failed' = (call_failed \/ call = "throws")
                      /\ last' = [line |-> g.line, report |-> b.report,
                                  contacted |-> b.contacted,
                                  dispatched |-> b.dispatched,
                                  threw |-> (call = "throws"),
                                  errs |-> StderrLines(b.report)]
                      /\ tool_to_server_map' = b.map
                      /\ IF b.report = "Uncaught"
                         THEN /\ pc' = "Aborted"
                              /\ frames' = frames
                              /\ exit_code' = exit_code
                         ELSE /\ frames' = fs
                              /\ pc' = IF fs = <<>> THEN "Exited"
                                       ELSE "AwaitingCommand"
                              /\ exit_code' = IF fs = <<>> THEN 0
                                              ELSE exit_code
    /\ UNCHANGED <<program, config, next_cfg, connected_servers, attempts>>
    /\ UNCHANGED gen_vars

\* =================================================== simple-function-call
\* ------------------------------------------------------ the generation loop
\* Fault variant of GenLoopCond: <= in place of <.
GenLoopCond_Inclusive(pos, ntok, np, npred) == pos + ntok <= np + npred

\* The for condition: n_pos + batch.n_tokens < n_prompt + n_predict.
GenLoopCond(pos, ntok, np, npred) == pos + ntok < np + npred

\* Fault variant of SampledIsEog: the test is missing.
SampledIsEog_Never(tok) == FALSE

\* llama_vocab_is_eog.
SampledIsEog(tok) == tok = "eog"

\* llama_token_to_piece: the text of a token.
llama_token_to_piece(tok) ==
    IF tok = "tok_a" THEN "a" ELSE IF tok = "tok_b" THEN "b" ELSE ""

\* Fault variant of ResponseOnEog: the piece is appended before the test.
ResponseOnEog_Appends(text, tok) == Append(text, llama_token_to_piece(tok))

\* response_text when the sampled token is the end of generation: the break
\* comes before anything is appended.
ResponseOnEog(text, tok) == text

\* Fault variant of NextBatch: the next batch is not prepared, the loop
\* submits the same batch again.
NextBatch_Stale(b, tok) == b

\* batch = llama_batch_get_one(&new_token_id, 1): one token, the one just
\* sampled.
NextBatch(b, tok) == [n_tokens |-> 1, token |-> tok]

\* Fault variant of DecodeFailureCtl: the loop is left with `break`.
DecodeFailureCtl_Break == "break"

\* Where a failed llama_decode leads: `return 1` ends the process.
DecodeFailureCtl == "return"

\* One iteration of the generation loop: llama_decode of the batch, then
\* sampling, the end-of-generation test, the conversion to text and the
\* next batch.
GenIterate ==
    /\ program = "gen"
    /\ gpc = "Generating"
    /\ GenLoopCond(n_pos, batch.n_tokens, n_prompt, n_predict)
    /\ \E decode_ok \in BOOLEAN, tok \in Tokens, piece_ok \in BOOLEAN :
         /\ n_llama_decode' = n_llama_decode + 1
         /\ IF ~decode_ok
            THEN /\ gfail' = [kind |-> "decode", errs |-> 1]
                 /\ IF DecodeFailureCtl = "return"
                    THEN gpc' = "Exited" /\ gexit' = 1
                    ELSE gpc' = "Parsing" /\ gexit' = gexit
                 /\ UNCHANGED <<n_pos, batch, new_token_id, n_decode,
                                response_text, samples>>
            ELSE /\ n_pos' = n_pos + batch.n_tokens
                 /\ new_token_id' = tok
                 /\ samples' = Append(samples, tok)
                 /\ IF SampledIsEog(tok)
                    THEN /\ gpc' = "Parsing"
                         /\ response_text' = ResponseOnEog(response_text, tok)
                         /\ UNCHANGED <<gexit, gfail, batch, n_decode>>
                    ELSE IF ~piece_ok
                    THEN /\ gpc' = "Exited"
                         /\ gexit' = 1
                         /\ gfail' = [kind |-> "piece", errs |-> 1]
                         /\ UNCHANGED <<batch, n_decode, response_text>>
                    ELSE /\ response_text' =
                               Append(response_text,
                                      llama_token_to_piece(tok))
                         /\ batch' = NextBatch(batch, tok)
                         /\ n_decode' = n_decode + 1
                         /\ UNCHANGED <<gpc, gexit, gfail>>
    /\ UNCHANGED <<program, confirm_commands, n_prompt, n_predict,
                   tool_calls, call_idx, gcin, processed>>
    /\ UNCHANGED mcp_vars

\* The for condition is false: the loop is left.
GenLoopEnd ==
    /\ program = "gen"
    /\ gpc = "Generating"
    /\ ~GenLoopCond(n_pos, batch.n_tokens, n_prompt, n_predict)
    /\ gpc' = "Parsing"
    /\ UNCHANGED <<program, confirm_commands, n_prompt, n_predict, gexit,
                   n_pos, batch, new_token_id, n_decode, response_text,
                   tool_calls, call_idx, gcin, processed, samples,
                   n_llama_decode, gfail>>
    /\ UNCHANGED mcp_vars

\* ------------------------------------------------------- common_chat_parse
\* The tool calls the parser may return for a response: none for an empty
\* response, any list otherwise.
ParseResults(text) ==
    IF text = <<>> THEN {<<>>} ELSE SeqsUpTo(ToolCallSet, MaxCalls)

\* common_chat_parse and the test of tool_calls.empty(): without tool calls
\* main prints the content, cleans up and returns 0.
Parse ==
    /\ program = "gen"
    /\ gpc = "Parsing"
    /\ \E calls \in ParseResults(response_text) :
         /\ tool_calls' = calls
         /\ IF calls = <<>>
            THEN gpc' = "Exited" /\ gexit' = 0
            ELSE gpc' = "Executing" /\ gexit' = gexit
    /\ UNCHANGED <<program, confirm_commands, n_prompt, n_predict, n_pos,
                   batch, new_token_id, n_decode, response_text, call_idx,
                   gcin, processed, samples, n_llama_decode, gfail>>
    /\ UNCHANGED mcp_vars

\* ------------------------------------------------ the shell_command executor
\* Fault variant of NameMatches: the name is not tested.
NameMatches_Any(name) == TRUE

\* tool_call.name == "shell_command".
NameMatches(name) == name = "shell_command"

\* json::parse(tool_call.arguments) and std::string command =
\* args["command"]: both throw into the catch block.
DecodeArgs(arguments) ==
    LET j == json_parse(arguments)
    IN  j.ok /\ "command" \in j.value

\* Fault variant of IsAffirmative: only "n" declines, so an empty answer
\* and end-of-input run the command.
IsAffirmative_DefaultYes(response) == response # <<"n">>

\* The test of the operator's answer: only "y" and "Y" go on.
IsAffirmative(response) == response \in {<<"y">>, <<"Y">>}

\* The body of the loop over tool_calls for one call: what happened, the
\* answer read (if the prompt was shown), stdin afterwards and the error
\* lines printed.  `response` is a fresh empty string for every prompt.
HandleToolCall(call, inp) ==
    IF ~NameMatches(call.name)
    THEN [outcome |-> "skipped", prompted |-> FALSE, answer |-> <<>>,
          cin |-> gcin, errs |-> 0]
    ELSE IF ~DecodeArgs(call.arguments)
    THEN [outcome |-> "ArgumentError", prompted |-> FALSE, answer |-> <<>>,
          cin |-> gcin, errs |-> 1]
    ELSE IF confirm_commands
    THEN LET g == getline(gcin, <<>>, inp)
         IN  IF ~IsAffirmative(g.line)
             THEN [outcome |-> "declined", prompted |-> TRUE,
                   answer |-> g.line, cin |-> g.cin, errs |-> 0]
             ELSE [outcome |-> "spawned", prompted |-> TRUE,
                   answer |-> g.line, cin |-> g.cin, errs |-> 0]
    ELSE [outcome |-> "spawned", prompted |-> FALSE, answer |-> <<>>,
          cin |-> gcin, errs |-> 0]

\* Fault variant of NextCall: a failed or declined call ends the loop.
NextCall_StopOnFailure(idx, outcome, n) ==
    IF outcome \in {"ArgumentError", "declined"} THEN n + 1 ELSE idx + 1

\* The range-for goes on to the next tool call after `continue`, after the
\* catch block and after a run alike.
NextCall(idx, outcome, n) == idx + 1

\* stdin is read only when the prompt is shown.
AnswersFor(call) ==
    IF NameMatches(call.name) /\ DecodeArgs(call.arguments)
       /\ confirm_commands /\ gcin = "good"
    THEN AnswerInputs
    ELSE {[kind |-> "eof", text |-> <<>>, nl |-> FALSE]}

\* One iteration of the loop over parsed_response.tool_calls; after the
\* last one main cleans up and returns 0.
ExecCall ==
    /\ program = "gen"
    /\ gpc = "Executing"
    /\ \E inp \in AnswersFor(tool_calls[call_idx]) :
         LET h == HandleToolCall(tool_calls[call_idx], inp)
             nxt == NextCall(call_idx, h.outcome, Len(tool_calls))
         IN  /\ processed' = Append(processed,
                                    [idx |-> call_idx,
                                     outcome |-> h.outcome,
                                     prompted |-> h.prompted,
                                     answer |-> h.answer,
                                     eof |-> (h.cin = "fail"),
                                     errs |-> h.errs])
             /\ gcin' = h.cin
             /\ call_idx' = nxt
             /\ IF nxt > Len(tool_calls)
                THEN gpc' = "Exited" /\ gexit' = 0
                ELSE gpc' = gpc /\ gexit' = gexit
    /\ UNCHANGED <<program, confirm_commands, n_prompt, n_predict, n_pos,
                   batch, new_token_id, n_decode, response_text, tool_calls,
                   samples, n_llama_decode, gfail>>
    /\ UNCHANGED mcp_vars

McpNext == ConnectNext \/ StartupDone \/ Iterate

GenNext == GenIterate \/ GenLoopEnd \/ Parse \/ ExecCall

Next == McpNext \/ GenNext

Spec == Init /\ [][Next]_vars

\* The process is running: main and the command loop keep taking steps.
FairSpec == Spec /\ WF_vars(Next)

\* A run of simple-function-call alone; the process keeps taking steps.
GenOnlyInit == program = "gen" /\ McpIdle /\ GenInit

GenFairSpec == GenOnlyInit /\ [][GenNext]_vars /\ WF_vars(GenNext)

\* ================================================================ properties
\* Servers of connected_servers that offer tool t.
Offering(t) ==
    {i \in 1..Len(connected_servers) : t \in connected_servers[i].tools}

Largest(S) == CHOOSE i \in S : \A j \in S : j <= i

AllToolNames == ToolNames \cup TypedNames

\* Configuration entries whose connection attempt failed.
FailedCfgs ==
    {attempts[k].cfg : k \in {j \in 1..Len(attempts) : ~attempts[j].ok}}

IsOk(a) == a.ok

\* C1: resolving a tool name returns the server connected last among those
\* that offer it, and nullptr (0) when no connected server offers it.
C1_LastConnectedWins ==
    \A t \in AllToolNames :
        find_server_for_tool(t)
            = IF Offering(t) = {} THEN 0 ELSE Largest(Offering(t))

\* C2: once startup has finished, the server name stored for every key of
\* tool_to_server_map names exactly one server of connected_servers.
C2_KeyHasOneProvider ==
    pc # "Startup" =>
        \A t \in DOMAIN tool_to_server_map :
            Cardinality({i \in 1..Len(connected_servers) :
                            connected_servers[i].name
                                = tool_to_server_map[t]}) = 1

\* C3: execute_tool on a name that is not a key of tool_to_server_map
\* reports NotFound and calls call_tool on no server.
C3_AbsentNameNotFound ==
    (last.dispatched /\ ToolNameOf(last.line) \notin DOMAIN tool_to_server_map)
        => (last.report = "NotFound" /\ last.contacted = 0)

C3_Witness ==
    /\ last.dispatched
    /\ ToolNameOf(last.line) \notin DOMAIN tool_to_server_map
    /\ DOMAIN tool_to_server_map # {}
    /\ ArgsStrOf(last.line) = "{}"
    /\ n_dispatch >= 2

\* C4: an exit or quit command ends the session: the process has finished
\* with exit code 0 (so no further line is read).
C4_ExitTerminates ==
    last.report = "Exit" => (pc = "Exited" /\ exit_code = 0)

\* C5: once the input stream is exhausted the session eventually
\* terminates.
C5_EofTerminates == (cin # "good") ~> (pc = "Exited")

\* C6: when every connection attempt has failed, startup ends the process
\* with exit code 1 and the session is never entered: no line is read and
\* nothing is dispatched.
C6_NoProvidersFatal ==
    (pc # "Startup" /\ \A k \in 1..Len(attempts) : ~attempts[k].ok)
        => /\ pc = "Exited"
           /\ exit_code = 1
           /\ frames = <<>>
           /\ n_lines = 0
           /\ n_exec = 0
           /\ n_dispatch = 0
           /\ last = NoIteration

C6_Witness ==
    /\ pc = "Exited"
    /\ exit_code = 1
    /\ Len(attempts) = 2
    /\ \A k \in 1..Len(attempts) : ~attempts[k].ok

\* C7: a server whose connection attempt failed is not in connected_servers,
\* no tool resolves to it, and every entry of tool_to_server_map was written
\* for a connected server that offers the tool.
C7_FailedProviderDiscarded ==
    /\ \A s \in 1..Len(connected_servers) :
          connected_servers[s].client \notin FailedCfgs
    /\ \A t \in AllToolNames :
          find_server_for_tool(t) # 0 =>
              connected_servers[find_server_for_tool(t)].client
                  \notin FailedCfgs
    /\ \A t \in DOMAIN tool_to_server_map :
          \E s \in 1..Len(connected_servers) :
              /\ connected_servers[s].name = tool_to_server_map[t]
              /\ t \in connected_servers[s].tools

C7_Witness ==
    /\ pc = "AwaitingCommand"
    /\ FailedCfgs # {}
    /\ Len(connected_servers) >= 1
    /\ DOMAIN tool_to_server_map # {}
    /\ n_dispatch >= 1

\* C8: the k-th connection attempt is for the k-th configured server, so
\* every configured server is attempted exactly once and in order whatever
\* the earlier attempts did, and connected_servers holds exactly the
\* servers of the successful attempts, in order.
C8_OneAttemptEach ==
    /\ Len(attempts) = next_cfg - 1
    /\ \A k \in 1..Len(attempts) : attempts[k].cfg = k
    /\ pc # "Startup" => Len(attempts) = Len(config)
    /\ LET okc == SelectSeq(attempts, IsOk)
       IN  /\ Len(connected_servers) = Len(okc)
           /\ \A s \in 1..Len(okc) :
                 connected_servers[s].client = okc[s].cfg

C8_Witness ==
    /\ pc = "AwaitingCommand"
    /\ Len(attempts) = 2
    /\ ~attempts[1].ok
    /\ attempts[2].ok

\* C9: every step of the interactive session leaves tool_to_server_map and
\* connected_servers unchanged.
C9_RegistryReadOnly ==
    [][pc = "AwaitingCommand" =>
          /\ tool_to_server_map' = tool_to_server_map
          /\ connected_servers' = connected_servers]_vars

C9_Witness ==
    /\ pc = "AwaitingCommand"
    /\ n_exec >= 2
    /\ n_dispatch >= 1
    /\ last.report = "NotFound"

\* C10: an exception of call_tool is reported as ExecutionError and the
\* session goes on: the process is never aborted, and right after the
\* failed call the command loop is awaiting the next command.
C10_ExecutionErrorContinues ==
    /\ call_failed => pc \in {"AwaitingCommand", "Exited"}
    /\ call_failed => (pc = "Exited" => exit_code = 0)
    /\ last.report = "ExecutionError" =>
          (pc = "AwaitingCommand" /\ frames # <<>> /\ last.contacted # 0)

C10_Witness ==
    /\ call_failed
    /\ pc = "AwaitingCommand"
    /\ last.report = "Result"
    /\ n_dispatch >= 2

\* C11: a tool line whose argument blob does not parse as JSON reports an
\* input error, does not call execute_tool (no lookup, no call_tool) and
\* leaves the session awaiting the next command.
C11_BadJsonNotDispatched ==
    (/\ CommandOf(last.line) = "tool"
     /\ ToolNameOf(last.line) # ""
     /\ ArgsStrOf(last.line) = "{bad")
        => /\ last.report = "InvalidJSON"
           /\ ~last.dispatched
           /\ last.contacted = 0
           /\ pc = "AwaitingCommand"

C11_Witness ==
    /\ last.report = "InvalidJSON"
    /\ last.line = <<"tool", "search", "{bad">>
    /\ find_server_for_tool("search") # 0
    /\ n_dispatch = 1
    /\ n_exec = 2

\* C12: a line with an unrecognized command name reports the error and does
\* nothing else: no server is contacted, nothing is dispatched, and the
\* registry, the server list and the session (state and nesting of the
\* command loop) are as before.
C12_UnknownCommandNoEffect ==
    [][(/\ pc = "AwaitingCommand"
        /\ last'.line # <<>>
        /\ CommandOf(last'.line)
              \notin {"exit", "quit", "tools", "servers", "tool", "help"})
          => /\ last'.report = "Unknown"
             /\ last'.contacted = 0
             /\ ~last'.dispatched
             /\ n_dispatch' = n_dispatch
             /\ call_failed' = call_failed
             /\ tool_to_server_map' = tool_to_server_map
             /\ connected_servers' = connected_servers
             /\ pc' = pc
             /\ exit_code' = exit_code
             /\ Len(frames') = Len(frames)]_vars

C12_Witness ==
    /\ pc = "AwaitingCommand"
    /\ last.report = "Unknown"
    /\ last.line = <<"bogus">>
    /\ Len(frames) = 2

\* Tool calls handled so far.
Handled == 1..Len(processed)

\* C13: with --confirm, an answer other than "y" or "Y" (any other line, an
\* empty line, end of input) declines: the command is not run, no error is
\* printed, and a command that runs was confirmed; the process still
\* returns 0.
C13_NonAffirmativeDeclines ==
    /\ \A k \in Handled :
          (processed[k].prompted
             /\ processed[k].answer \notin {<<"y">>, <<"Y">>})
              => (processed[k].outcome = "declined" /\ processed[k].errs = 0)
    /\ \A k \in Handled :
          (confirm_commands /\ processed[k].outcome = "spawned")
              => (processed[k].prompted
                    /\ processed[k].answer \in {<<"y">>, <<"Y">>})
    /\ (gpc = "Exited" /\ processed # <<>>) => gexit = 0

C13_Witness ==
    /\ gpc = "Exited"
    /\ gexit = 0
    /\ confirm_commands
    /\ Len(processed) = 2
    /\ processed[1].answer = <<"n">>
    /\ processed[1].outcome = "declined"
    /\ processed[2].eof
    /\ processed[2].outcome = "declined"

\* C14: the tool calls of a response are handled one at a time in the
\* parser's order, and every one of them is handled whatever happened to
\* the earlier ones.
C14_EveryCallAttempted ==
    /\ \A k \in Handled : processed[k].idx = k
    /\ Len(processed) = call_idx - 1
    /\ Len(processed) <= Len(tool_calls)
    /\ gpc = "Executing" => call_idx <= Len(tool_calls)
    /\ (gpc = "Exited" /\ gexit = 0) => Len(processed) = Len(tool_calls)

C14_Witness ==
    /\ gpc = "Exited"
    /\ confirm_commands
    /\ Len(processed) = 2
    /\ processed[1].outcome = "ArgumentError"
    /\ processed[2].outcome = "declined"

C17_FirstTokenEog ==
    (samples # <<>> /\ samples[1] = "eog")
        => /\ response_text = <<>>
           /\ n_decode = 0
           /\ n_llama_decode = 1
           /\ Len(samples) = 1
           /\ gfail = NoFailure
           /\ gpc \in {"Parsing", "Exited"}
           /\ gpc = "Exited" => gexit = 0

C17_Witness ==
    /\ samples = <<"eog">>
    /\ n_prompt = 2
    /\ n_predict = 2
    /\ gpc = "Exited"
    /\ gexit = 0

\* C18: a failed llama_decode ends the process with exit code 1 at once:
\* nothing is sampled after it, the response is not parsed and no tool call
\* is handled.
C18_DecodeFailureFatal ==
    gfail.kind = "decode"
        => /\ gpc = "Exited"
           /\ gexit = 1
           /\ Len(samples) = n_llama_decode - 1
           /\ n_decode = Len(samples)
           /\ tool_calls = <<>>
           /\ processed = <<>>

C18_Witness ==
    /\ gfail.kind = "decode"
    /\ n_llama_decode = 2
    /\ n_decode = 1

\* C19: every error occurrence writes exactly one error line: a failed
\* connection attempt, a dispatch of an unregistered name, a call_tool that
\* throws, an unparseable operator line, a tool call whose arguments do not
\* decode, and a fatal generation error.
C19_OneLinePerError ==
    /\ \A k \in 1..Len(attempts) : ~attempts[k].ok => attempts[k].errs = 1
    /\ (last.dispatched /\ find_server_for_tool(ToolNameOf(last.line)) = 0)
          => last.errs = 1
    /\ last.threw => last.errs = 1
    /\ (CommandOf(last.line) = "tool"
          /\ (ToolNameOf(last.line) = "" \/ ArgsStrOf(last.line) = "{bad"))
          => last.errs = 1
    /\ CommandOf(last.line) = "bogus" => last.errs = 1
    /\ \A k \in Handled :
          (tool_calls[k].name = "shell_command"
             /\ tool_calls[k].arguments # "{cmd}")
              => processed[k].errs = 1
    /\ gfail.kind # "none" => gfail.errs = 1

C19_Witness ==
    /\ Len(attempts) = 2
    /\ ~attempts[1].ok
    /\ last.threw
    /\ last.errs = 1
    /\ n_dispatch = 2

\* C20: a command is run only for a tool call named shell_command whose
\* arguments decode to an object with a string `command`, and, with
\* --confirm, only after the prompt was answered "y" or "Y"; the prompt is
\* shown only after the arguments decoded, so a call with another name or
\* undecodable arguments is neither prompted for nor run.
C20_SpawnOnlyWhenAllowed ==
    \A k \in Handled :
        /\ processed[k].outcome = "spawned"
              => /\ tool_calls[k].name = "shell_command"
                 /\ tool_calls[k].arguments = "{cmd}"
                 /\ confirm_commands
                       => (processed[k].prompted
                             /\ processed[k].answer \in {<<"y">>, <<"Y">>})
        /\ processed[k].prompted
              => /\ confirm_commands
                 /\ tool_calls[k].name = "shell_command"
                 /\ tool_calls[k].arguments = "{cmd}"
        /\ (tool_calls[k].name # "shell_command"
              \/ tool_calls[k].arguments # "{cmd}")
              => (~processed[k].prompted
                    /\ processed[k].outcome # "spawned")

C20_Witness ==
    /\ confirm_commands
    /\ Len(processed) = 2
    /\ processed[1].outcome = "skipped"
    /\ processed[2].outcome = "spawned"
    /\ processed[2].answer = <<"Y">>

\* C21: every tool that the `tools` listing shows under a server is
\* dispatched to that server by execute_tool.
C21_ListingAgreesWithDispatch ==
    \A e \in display_tools : execute_tool(e[2], "ok").contacted = e[1]

\* C22: commands executed, and dispatcher calls made, never outnumber the
\* lines the input stream has supplied.
C22_EachLineAtMostOnce ==
    /\ n_exec <= n_lines
    /\ n_dispatch <= n_lines

\* Tokens handed to llama_decode so far: those evaluated, and the batch of
\* a decode call that failed.
Submitted ==
    n_pos + (IF gfail.kind = "decode" THEN batch.n_tokens ELSE 0)

\* The generation-loop invariants with the decode bound `limit`.
GenCounters(limit) ==
    /\ n_decode <= (IF n_predict > 0 THEN n_predict ELSE 0)
    /\ Submitted <= limit
    /\ (gpc = "Generating" /\ n_llama_decode >= 1)
          => /\ batch.n_tokens = 1
             /\ batch.token = new_token_id
             /\ batch.token = samples[Len(samples)]
    /\ Len(response_text) = n_decode
    /\ Len(samples) \in {n_decode, n_decode + 1}
    /\ \A k \in 1..n_decode :
          /\ samples[k] # "eog"
          /\ response_text[k] = llama_token_to_piece(samples[k])

\* C23 as stated: the tokens submitted for decoding never exceed
\* n_prompt + n_predict - 1.
C23_CountersWithinBudget_Stated ==
    program = "gen" => GenCounters(n_prompt + n_predict - 1)

\* C23: n_decode is at most max(n_predict, 0); the tokens submitted for
\* decoding never exceed max(n_prompt + n_predict - 1, 0); every batch
\* submitted after the first holds exactly the token sampled last; and
\* response_text is the in-order concatenation of the pieces of the first
\* n_decode sampled tokens, none of which is the end-of-generation token.
C23_CountersWithinBudget ==
    program = "gen"
        => GenCounters(IF n_prompt + n_predict - 1 > 0
                       THEN n_prompt + n_predict - 1 ELSE 0)

C23_Witness ==
    /\ gpc = "Parsing"
    /\ n_prompt = 2
    /\ n_predict = 2
    /\ n_decode = 2
    /\ n_pos = 3
    /\ response_text = <<"a", "b">>
====
